---- MODULE Spec2Model ----
(***************************************************************************)
(* Scapegoat tree (rzgn/scapegoat-tree): the integer-key ScapegoatTree of  *)
(* ScapegoatTree.h / ScapegoatTree.cpp and the constructor check of the    *)
(* template in GenericScapegoatTree.h.                                     *)
(*                                                                         *)
(* Nodes live in a heap addressed by node ids 1..MaxNodes; NULL (0) is the *)
(* null pointer and Dummy is the stack-allocated list terminator that      *)
(* rebuild() hands to flatten() and buildTree().  alpha is a double in the *)
(* source; here <<numerator, denominator>> names the double nearest to     *)
(* that rational, and alpha * maxSize is rounded as the doubles round it.  *)
(***************************************************************************)
EXTENDS Integers, Sequences, FiniteSets, TLC

\* ---------------------------------------------------------------- bounds
MaxKey == 5
MaxInserts == 5
MaxEndsKey == 15
MaxEndsRemoves == 1
MaxFillRemoves == 2
MaxArgNum == 11
MaxArgDen == 10
MaxNodes == 5
MaxVerifyNodes == 3
MaxVerifyKey == 3
MaxBelowBoundary == 1

Keys == 1..MaxKey
\* the keys of the two-child removal scenario
FillKeys == {1, 3, 4, 5, 7, 8, 9}
NULL == 0
Dummy == -1

\* ------------------------------------------------------------- rationals
Rat(n, d) == <<n, d>>
RatLeq(a, b) == a[1] * b[2] <= b[1] * a[2]

kDefaultAlpha == Rat(1, 2)
kMinAlpha == Rat(1, 2)
kMaxAlpha == Rat(1, 1)

\* balance factors the tree operations are explored with
Alphas == {Rat(3, 5), Rat(3, 4)}
\* balance factors of the insert-at-the-ends workload
EndsAlphas == {Rat(3, 5), Rat(7, 12)}
\* balance factors of the fill-and-trim workload: alpha * maxSize computed
\* in doubles is equal to, below and above the size num when maxSize = den
BoundaryAlphas == {Rat(3, 5), Rat(13, 23), Rat(14, 25)}
\* balance factors verify is explored with
VerifyAlphas == Alphas \cup {Rat(14, 25)}
\* constructor arguments
AlphaArgs == {Rat(n, d) : n \in 0..MaxArgNum, d \in 1..MaxArgDen}

\* ------------------------------------------------------------------ state
VARIABLES
  phase,            \* "constructing", "alive" or "threw"
  alpha,            \* double alpha
  root,             \* Node* root
  key,              \* Node::key of every allocated node
  left,             \* Node::left
  right,            \* Node::right
  size,             \* size_t size
  maxSize,          \* size_t maxSize
  replaceWithSucc,  \* bool replaceWithSucc
  fault,            \* a write through a pointer to no node, or a pop of an empty stack
  op,               \* the last public call: [name, arg]
  ret,              \* its return value
  rb,               \* the rebuild it performed, if any
  S,                \* the mathematical set the tree implements
  nIns,             \* number of insert calls that returned true
  nRem              \* number of remove calls that returned true

vars == <<phase, alpha, root, key, left, right, size, maxSize,
          replaceWithSucc, fault, op, ret, rb, S, nIns, nRem>>

\* the tree object as one value; the nodes allocated and not freed are
\* the domain of key, left and right
tree == [root |-> root, key |-> key, left |-> left, right |-> right,
         size |-> size, maxSize |-> maxSize,
         replaceWithSucc |-> replaceWithSucc, fault |-> fault]

\* the object after its default member initialisers
EmptyTree == [root |-> NULL, key |-> <<>>, left |-> <<>>, right |-> <<>>,
              size |-> 0, maxSize |-> 0,
              replaceWithSucc |-> TRUE, fault |-> FALSE]

NoRebuild == [happened |-> FALSE]

\* ------------------------------------------------------------------ heap
live(t) == DOMAIN t.key

\* new Node for key k: a cell that is not allocated, never the null pointer
\* and never the cell of rebuild's dummy.  Which free cell the allocator
\* returns is its own choice and no code depends on it; the model takes
\* cell k when k is a cell (k >= 1) and free, and the lowest free cell
\* otherwise.
NewNode(t, k) ==
  IF k >= 1 /\ k \notin live(t) THEN k
  ELSE CHOOSE n \in 1..(Cardinality(live(t)) + 1) : n \notin live(t)

Extend(f, n, v) == [m \in DOMAIN f \cup {n} |-> IF m = n THEN v ELSE f[m]]
Drop(f, n) == [m \in DOMAIN f \ {n} |-> f[m]]

\* node->key = k; node->left = node->right = nullptr, for a fresh node
Alloc(t, n, k) == [t EXCEPT !.key = Extend(t.key, n, k),
                            !.left = Extend(t.left, n, NULL),
                            !.right = Extend(t.right, n, NULL)]

\* delete n
Free(t, n) == IF n \in live(t)
              THEN [t EXCEPT !.key = Drop(t.key, n),
                             !.left = Drop(t.left, n),
                             !.right = Drop(t.right, n)]
              ELSE [t EXCEPT !.fault = TRUE]

\* p->left = v, p->right = v, p->key = v
SetLeft(t, p, v) == IF p \in live(t) THEN [t EXCEPT !.left[p] = v]
                    ELSE [t EXCEPT !.fault = TRUE]
SetRight(t, p, v) == IF p \in live(t) THEN [t EXCEPT !.right[p] = v]
                     ELSE [t EXCEPT !.fault = TRUE]
SetKey(t, p, v) == IF p \in live(t) THEN [t EXCEPT !.key[p] = v]
                   ELSE [t EXCEPT !.fault = TRUE]

\* ---------------------------------------------------- alpha-deep height
RECURSIVE Pow(_, _)
Pow(b, e) == IF e = 0 THEN 1 ELSE b * Pow(b, e - 1)

\* floor(log(n) / log(1 / alpha)) for n >= 1: the largest h with
\* (1/alpha)^h <= n, i.e. den^h <= n * num^h
RECURSIVE DeepHeightFrom(_, _, _)
DeepHeightFrom(a, n, h) ==
  IF Pow(a[2], h + 1) <= n * Pow(a[1], h + 1)
  THEN DeepHeightFrom(a, n, h + 1) ELSE h

getAlphaDeepHeight(n) == DeepHeightFrom(alpha, n, 0)

\* ------------------------------------------------- alpha * maxSize
\* alpha is a double: the rational <<num, den>> stands for the double nearest
\* to num/den, and alpha * maxSize is the double nearest to the product of
\* that double and maxSize.  For 1/2 <= num/den < 1 the double is
\* M / 2^MantissaBits with M the integer nearest to num * 2^MantissaBits / den.
MantissaBits == 53

\* (r * 2^i) mod den
RECURSIVE ScaledRemainder(_, _, _)
ScaledRemainder(r, den, i) ==
  IF i = 0 THEN r ELSE ScaledRemainder((2 * r) % den, den, i - 1)

\* M * den - num * 2^MantissaBits: the double of num/den is
\* num/den + doubleError / (den * 2^MantissaBits).  (A tie 2r = den needs
\* den to divide num * 2^(MantissaBits+1), which the dens used here, all
\* below 2^MantissaBits, allow only with r = 0.)
doubleError(a) ==
  LET r == ScaledRemainder(a[1] % a[2], a[2], MantissaBits)
  IN  IF 2 * r > a[2] THEN a[2] - r ELSE 0 - r

\* the largest power of two that is <= n, n >= 1
RECURSIVE Pow2Floor(_)
Pow2Floor(n) == IF n <= 1 THEN 1 ELSE 2 * Pow2Floor(n \div 2)

\* the sign of (alpha * m) - n as the doubles compare, for an integer n >= 0.
\* When n * den # num * m the two differ by at least 1/den and the double
\* product is on the same side of n as the exact one.  When n = num * m / den
\* the exact product of the double alpha and m is n + e * m / (den * 2^53)
\* with e = doubleError(a); it rounds to n unless it is more than half a
\* step of the doubles away from n: the step is 2^(k-52) above n and, when n
\* is the power of two 2^k itself, 2^(k-53) below it.
compareAlphaTimes(a, n, m) ==
  IF n * a[2] < a[1] * m THEN 1
  ELSE IF n * a[2] > a[1] * m THEN -1
  ELSE IF n = 0 THEN 0
  ELSE LET e  == doubleError(a)
           p2 == Pow2Floor(n)
       IN  IF e * m > a[2] * p2 THEN 1
           ELSE IF (IF n = p2 THEN (0 - 2) * e * m ELSE (0 - e) * m) > a[2] * p2
           THEN -1
           ELSE 0

\* size <= alpha * maxSize
AtMostAlphaTimes(a, n, m) == compareAlphaTimes(a, n, m) >= 0

\* size >= alpha * maxSize
AtLeastAlphaTimes(a, n, m) == compareAlphaTimes(a, n, m) <= 0

\* --------------------------------------------------------------- helpers
RECURSIVE getSubtreeSize(_, _)
getSubtreeSize(t, n) ==
  IF n = NULL THEN 0
  ELSE 1 + getSubtreeSize(t, t.left[n]) + getSubtreeSize(t, t.right[n])

\* --------------------------------------------------------------- search
RECURSIVE searchFrom(_, _, _)
searchFrom(t, k, curr) ==
  IF curr = NULL THEN FALSE
  ELSE IF k = t.key[curr] THEN TRUE
  ELSE IF k < t.key[curr] THEN searchFrom(t, k, t.left[curr])
  ELSE searchFrom(t, k, t.right[curr])

search(t, k) == searchFrom(t, k, t.root)

\* GenericScapegoatTree.h: the default comparison and search through it
defaultIsLessThan(lhs, rhs) == lhs < rhs

RECURSIVE searchGenericFrom(_, _, _)
searchGenericFrom(t, k, curr) ==
  IF curr = NULL THEN FALSE
  ELSE IF defaultIsLessThan(k, t.key[curr])
  THEN searchGenericFrom(t, k, t.left[curr])
  ELSE IF defaultIsLessThan(t.key[curr], k)
  THEN searchGenericFrom(t, k, t.right[curr])
  ELSE TRUE

searchGeneric(t, k) == searchGenericFrom(t, k, t.root)

\* ------------------------------------------------------------- rebuild
\* flatten(treeRoot, listHead): [t |-> the heap afterwards, ret |-> list head]
RECURSIVE flatten(_, _, _)
flatten(t, treeRoot, listHead) ==
  IF treeRoot = NULL THEN [t |-> t, ret |-> listHead]
  ELSE LET r  == flatten(t, t.right[treeRoot], listHead)
           t1 == SetRight(r.t, treeRoot, r.ret)
       IN  flatten(t1, t1.left[treeRoot], treeRoot)

\* buildTree giving the smaller half to the left subtree
RECURSIVE buildTreeRightHeavy(_, _, _)
buildTreeRightHeavy(t, treeSize, listHead) ==
  IF listHead \notin live(t)
  THEN [t |-> [t EXCEPT !.fault = TRUE], ret |-> listHead]
  ELSE IF treeSize = 0
  THEN [t |-> SetLeft(t, listHead, NULL), ret |-> listHead]
  ELSE LET a         == buildTreeRightHeavy(t, (treeSize - 1) \div 2, listHead)
           firstHalf == a.ret
       IN  IF a.t.fault THEN a
           ELSE LET b == buildTreeRightHeavy(a.t, treeSize \div 2,
                                             a.t.right[firstHalf])
                    secondHalf == b.ret
                IN  IF b.t.fault THEN b
                    ELSE LET t1 == SetRight(b.t, firstHalf, b.t.left[secondHalf])
                             t2 == SetLeft(t1, secondHalf, firstHalf)
                         IN  [t |-> t2, ret |-> secondHalf]

\* buildTree(treeSize, listHead): [t |-> heap afterwards, ret |-> (n+1)th node]
RECURSIVE buildTree(_, _, _)
buildTree(t, treeSize, listHead) ==
  IF listHead \notin live(t)
  THEN [t |-> [t EXCEPT !.fault = TRUE], ret |-> listHead]
  ELSE IF treeSize = 0
  THEN [t |-> SetLeft(t, listHead, NULL), ret |-> listHead]
  ELSE LET \* ceil((treeSize - 1.0) / 2.0) and floor((treeSize - 1.0) / 2.0)
           ceilHalf   == treeSize \div 2
           floorHalf  == (treeSize - 1) \div 2
           a          == buildTree(t, ceilHalf, listHead)
           firstHalf  == a.ret
       IN  IF a.t.fault THEN a
           ELSE LET b          == buildTree(a.t, floorHalf, a.t.right[firstHalf])
                    secondHalf == b.ret
                IN  IF b.t.fault THEN b
                    ELSE LET t1 == SetRight(b.t, firstHalf, b.t.left[secondHalf])
                             t2 == SetLeft(t1, secondHalf, firstHalf)
                         IN  [t |-> t2, ret |-> secondHalf]

\* rebuild wiring the rebuilt subtree into the other slot of the parent
rebuildOtherSlot(t, sg) ==
  LET t0 == Alloc(t, Dummy, -1)
      f  == flatten(t0, sg.scapegoat, Dummy)
      b  == buildTree(f.t, sg.treeSize, f.ret)
      t1 == b.t
      newRoot == t1.left[Dummy]
      t2 == IF sg.parent = NULL
            THEN [t1 EXCEPT !.root = newRoot, !.maxSize = t1.size]
            ELSE IF sg.scapegoat = t1.left[sg.parent]
            THEN SetRight(t1, sg.parent, newRoot)
            ELSE SetLeft(t1, sg.parent, newRoot)
  IN  Free(t2, Dummy)

\* rebuild that leaves maxSize alone when the scapegoat is the root
rebuildKeepMaxSize(t, sg) ==
  LET t0 == Alloc(t, Dummy, -1)
      f  == flatten(t0, sg.scapegoat, Dummy)
      b  == buildTree(f.t, sg.treeSize, f.ret)
      t1 == b.t
      newRoot == t1.left[Dummy]
      t2 == IF sg.parent = NULL
            THEN [t1 EXCEPT !.root = newRoot]
            ELSE IF sg.scapegoat = t1.left[sg.parent]
            THEN SetLeft(t1, sg.parent, newRoot)
            ELSE SetRight(t1, sg.parent, newRoot)
  IN  Free(t2, Dummy)

\* rebuild(scapegoat) with scapegoat = [scapegoat, parent, treeSize]
rebuild(t, sg) ==
  LET \* Node dummy = { -1, nullptr, nullptr }
      t0 == Alloc(t, Dummy, -1)
      f  == flatten(t0, sg.scapegoat, Dummy)
      b  == buildTree(f.t, sg.treeSize, f.ret)
      t1 == b.t
      newRoot == t1.left[Dummy]
      t2 == IF sg.parent = NULL
            THEN [t1 EXCEPT !.root = newRoot, !.maxSize = t1.size]
            ELSE IF sg.scapegoat = t1.left[sg.parent]
            THEN SetLeft(t1, sg.parent, newRoot)
            ELSE SetRight(t1, sg.parent, newRoot)
  IN  \* dummy goes out of scope
      Free(t2, Dummy)

\* ------------------------------------------------------- findScapegoat
\* the loop stopping already at index = alpha-deep height
RECURSIVE findScapegoatLoopEarly(_, _, _, _, _, _)
findScapegoatLoopEarly(t, stack, curr, parent, currSize, currIndex) ==
  IF parent = NULL \/ currIndex >= getAlphaDeepHeight(currSize)
  THEN [scapegoat |-> curr, parent |-> parent, treeSize |-> currSize,
        index |-> currIndex, underflow |-> FALSE]
  ELSE IF stack = <<>>
  THEN [scapegoat |-> curr, parent |-> parent, treeSize |-> currSize,
        index |-> currIndex, underflow |-> TRUE]
  ELSE LET grown == IF t.left[parent] = curr
                    THEN currSize + 1 + getSubtreeSize(t, t.right[parent])
                    ELSE currSize + 1 + getSubtreeSize(t, t.left[parent])
       IN  findScapegoatLoopEarly(t, SubSeq(stack, 1, Len(stack) - 1), parent,
                                  stack[Len(stack)], grown, currIndex + 1)

\* the while (parent) loop; stack holds the ancestors not yet popped
RECURSIVE findScapegoatLoop(_, _, _, _, _, _)
findScapegoatLoop(t, stack, curr, parent, currSize, currIndex) ==
  IF parent = NULL \/ currIndex > getAlphaDeepHeight(currSize)
  THEN [scapegoat |-> curr, parent |-> parent, treeSize |-> currSize,
        index |-> currIndex, underflow |-> FALSE]
  ELSE IF stack = <<>>
  THEN [scapegoat |-> curr, parent |-> parent, treeSize |-> currSize,
        index |-> currIndex, underflow |-> TRUE]
  ELSE LET grown == IF t.left[parent] = curr
                    THEN currSize + 1 + getSubtreeSize(t, t.right[parent])
                    ELSE currSize + 1 + getSubtreeSize(t, t.left[parent])
       IN  findScapegoatLoop(t, SubSeq(stack, 1, Len(stack) - 1), parent,
                             stack[Len(stack)], grown, currIndex + 1)

\* findScapegoat always blaming the root
findScapegoatRoot(t, insertionPath) ==
  [scapegoat |-> t.root, parent |-> NULL, treeSize |-> t.size,
   index |-> Len(insertionPath) - 1, underflow |-> FALSE]

\* findScapegoat returning the parent of the inserted node without climbing
findScapegoatNoClimb(t, insertionPath) ==
  LET n == Len(insertionPath)
  IN  [scapegoat |-> insertionPath[n], parent |-> insertionPath[n - 1],
       treeSize |-> getSubtreeSize(t, insertionPath[n]),
       index |-> 1, underflow |-> FALSE]

\* insertionPath is the stack bottom first: <<nullptr, root, ..., parent of node>>
findScapegoat(t, insertionPath) ==
  IF Len(insertionPath) < 2
  THEN [scapegoat |-> NULL, parent |-> NULL, treeSize |-> 0,
        index |-> 0, underflow |-> TRUE]
  ELSE LET n    == Len(insertionPath)
           curr == insertionPath[n]
       IN  findScapegoatLoop(t, SubSeq(insertionPath, 1, n - 2), curr,
                             insertionPath[n - 1], getSubtreeSize(t, curr), 1)

\* --------------------------------------------------------------- insert
\* the descent of insert: [found, prev, path]
RECURSIVE insertDescend(_, _, _, _, _)
insertDescend(t, k, prev, curr, path) ==
  IF curr = NULL THEN [found |-> FALSE, prev |-> prev, path |-> path]
  ELSE IF k = t.key[curr]
  THEN [found |-> TRUE, prev |-> curr, path |-> Append(path, curr)]
  ELSE IF k < t.key[curr]
  THEN insertDescend(t, k, curr, t.left[curr], Append(path, curr))
  ELSE insertDescend(t, k, curr, t.right[curr], Append(path, curr))

\* isDeep one level late
isDeepLate(insertionHeight, deepHeight) ==
  insertionHeight >= 1 /\ insertionHeight > deepHeight + 1

\* insertionHeight >= 1 && insertionHeight > deepHeight
isDeep(insertionHeight, deepHeight) ==
  insertionHeight >= 1 /\ insertionHeight > deepHeight

\* insert(key) when the key is already present
insertPresent(t) == [t |-> t, ret |-> FALSE, rb |-> NoRebuild]

\* insert comparing the depth with the alpha-deep height of the old size
insertStaleSize(t, k) ==
  LET d == insertDescend(t, k, NULL, t.root, <<NULL>>)
  IN  IF d.found THEN insertPresent(t)
      ELSE
      LET node == NewNode(t, k)
          t1 == Alloc(t, node, k)
          t2 == IF d.prev = NULL THEN [t1 EXCEPT !.root = node]
                ELSE IF k < t1.key[d.prev] THEN SetLeft(t1, d.prev, node)
                ELSE SetRight(t1, d.prev, node)
          t3 == [t2 EXCEPT !.size = t2.size + 1]
          t4 == IF t3.size > t3.maxSize THEN [t3 EXCEPT !.maxSize = t3.size]
                ELSE t3
          deepHeight == IF t.size = 0 THEN 0 ELSE getAlphaDeepHeight(t.size)
          insertionHeight == Len(d.path) - 1
      IN  IF isDeep(insertionHeight, deepHeight)
          THEN LET sg == findScapegoat(t4, d.path)
               IN  IF sg.underflow
                   THEN [t |-> [t4 EXCEPT !.fault = TRUE], ret |-> TRUE,
                         rb |-> NoRebuild]
                   ELSE [t |-> rebuild(t4, sg), ret |-> TRUE,
                         rb |-> [happened |-> TRUE, sg |-> sg, node |-> node,
                                 path |-> d.path, before |-> t4]]
          ELSE [t |-> t4, ret |-> TRUE, rb |-> NoRebuild]

\* insert(key): [t |-> the tree afterwards, ret |-> result, rb |-> rebuild record]
insert(t, k) ==
  LET d == insertDescend(t, k, NULL, t.root, <<NULL>>)
  IN  IF d.found THEN insertPresent(t)
      ELSE
      LET node == NewNode(t, k)
          t1 == Alloc(t, node, k)
          t2 == IF d.prev = NULL THEN [t1 EXCEPT !.root = node]
                ELSE IF k < t1.key[d.prev] THEN SetLeft(t1, d.prev, node)
                ELSE SetRight(t1, d.prev, node)
          t3 == [t2 EXCEPT !.size = t2.size + 1]
          t4 == IF t3.size > t3.maxSize THEN [t3 EXCEPT !.maxSize = t3.size]
                ELSE t3
          deepHeight == getAlphaDeepHeight(t4.size)
          insertionHeight == Len(d.path) - 1
      IN  IF isDeep(insertionHeight, deepHeight)
          THEN LET sg == findScapegoat(t4, d.path)
               IN  IF sg.underflow
                   THEN [t |-> [t4 EXCEPT !.fault = TRUE], ret |-> TRUE,
                         rb |-> NoRebuild]
                   ELSE [t |-> rebuild(t4, sg), ret |-> TRUE,
                         rb |-> [happened |-> TRUE, sg |-> sg, node |-> node,
                                 path |-> d.path, before |-> t4]]
          ELSE [t |-> t4, ret |-> TRUE, rb |-> NoRebuild]

\* --------------------------------------------------------------- remove
\* splice the successor out: the descent of the left spine
RECURSIVE leftSpine(_, _, _)
leftSpine(t, prev, curr) ==
  IF t.left[curr] # NULL THEN leftSpine(t, curr, t.left[curr])
  ELSE [prev |-> prev, curr |-> curr]

RECURSIVE rightSpine(_, _, _)
rightSpine(t, prev, curr) ==
  IF t.right[curr] # NULL THEN rightSpine(t, curr, t.right[curr])
  ELSE [prev |-> prev, curr |-> curr]

\* spliceSuccessor descending the right spine of node's right subtree
spliceSuccessorRightSpine(t, node) ==
  IF t.right[t.right[node]] = NULL
  THEN [t |-> SetRight(t, node, t.left[t.right[node]]), curr |-> t.right[node]]
  ELSE LET w == rightSpine(t, node, t.right[node])
       IN  [t |-> SetRight(t, w.prev, t.left[w.curr]), curr |-> w.curr]

\* replaceWithSucc: find the in-order successor of node and splice it out;
\* [t |-> heap afterwards, curr |-> the spliced node]
spliceSuccessor(t, node) ==
  IF t.left[t.right[node]] = NULL
  THEN [t |-> SetRight(t, node, t.right[t.right[node]]), curr |-> t.right[node]]
  ELSE LET w == leftSpine(t, node, t.right[node])
       IN  [t |-> SetLeft(t, w.prev, t.right[w.curr]), curr |-> w.curr]

\* splicePredecessor clearing the slot of the predecessor
splicePredecessorDropChild(t, node) ==
  IF t.right[t.left[node]] = NULL
  THEN [t |-> SetLeft(t, node, NULL), curr |-> t.left[node]]
  ELSE LET w == rightSpine(t, node, t.left[node])
       IN  [t |-> SetRight(t, w.prev, NULL), curr |-> w.curr]

\* !replaceWithSucc: find the in-order predecessor of node and splice it out
splicePredecessor(t, node) ==
  IF t.right[t.left[node]] = NULL
  THEN [t |-> SetLeft(t, node, t.left[t.left[node]]), curr |-> t.left[node]]
  ELSE LET w == rightSpine(t, node, t.left[node])
       IN  [t |-> SetRight(t, w.prev, t.left[w.curr]), curr |-> w.curr]

\* removeNodeWithTwoChildren that never flips replaceWithSucc
removeNodeWithTwoChildrenNoFlip(t, node) ==
  LET sp == IF t.replaceWithSucc THEN spliceSuccessor(t, node)
            ELSE splicePredecessor(t, node)
      t1 == SetKey(sp.t, node, sp.t.key[sp.curr])
  IN  Free(t1, sp.curr)

\* removeNodeWithTwoChildren(node): node has two children
removeNodeWithTwoChildren(t, node) ==
  LET sp == IF t.replaceWithSucc THEN spliceSuccessor(t, node)
            ELSE splicePredecessor(t, node)
      \* node->key = curr->key; delete curr;
      t1 == SetKey(sp.t, node, sp.t.key[sp.curr])
      t2 == Free(t1, sp.curr)
  IN  [t2 EXCEPT !.replaceWithSucc = ~t2.replaceWithSucc]

\* removeNodeWithoutChild taking node->left as the child in every case
removeNodeWithoutChildLeftOnly(t, node, parent) ==
  LET child == t.left[node]
      t1 == IF t.root = node THEN [t EXCEPT !.root = child]
            ELSE IF t.left[parent] = node THEN SetLeft(t, parent, child)
            ELSE SetRight(t, parent, child)
  IN  Free(t1, node)

\* removeNodeWithoutChild that unlinks the node without deleting it
removeNodeWithoutChildLeak(t, node, parent) ==
  LET child == IF t.left[node] # NULL THEN t.left[node] ELSE t.right[node]
  IN  IF t.root = node THEN [t EXCEPT !.root = child]
      ELSE IF t.left[parent] = node THEN SetLeft(t, parent, child)
      ELSE SetRight(t, parent, child)

\* removeNodeWithoutChild(node, parent): node has at most one child
removeNodeWithoutChild(t, node, parent) ==
  LET child == IF t.left[node] # NULL THEN t.left[node] ELSE t.right[node]
      t1 == IF t.root = node THEN [t EXCEPT !.root = child]
            ELSE IF t.left[parent] = node THEN SetLeft(t, parent, child)
            ELSE SetRight(t, parent, child)
  IN  Free(t1, node)

\* the descent of remove: [found, prev, curr]
RECURSIVE removeDescend(_, _, _, _)
removeDescend(t, k, prev, curr) ==
  IF curr = NULL THEN [found |-> FALSE, prev |-> prev, curr |-> curr]
  ELSE IF k = t.key[curr] THEN [found |-> TRUE, prev |-> prev, curr |-> curr]
  ELSE IF k < t.key[curr] THEN removeDescend(t, k, curr, t.left[curr])
  ELSE removeDescend(t, k, curr, t.right[curr])

\* remove(key) returning true when the key doesn't exist
removeAbsentTrue(t) ==
  [t |-> t, ret |-> TRUE, rb |-> NoRebuild, twoChildren |-> FALSE]

\* remove(key) when the key doesn't exist
removeAbsent(t) ==
  [t |-> t, ret |-> FALSE, rb |-> NoRebuild, twoChildren |-> FALSE]

\* the end of remove without size--
rebalanceAfterRemoveNoDecrement(t, two) ==
  IF AtMostAlphaTimes(alpha, t.size, t.maxSize)
  THEN LET sg == [scapegoat |-> t.root, parent |-> NULL, treeSize |-> t.size]
       IN  [t |-> rebuild(t, sg), ret |-> TRUE, twoChildren |-> two,
            rb |-> [happened |-> TRUE, sg |-> sg, node |-> NULL,
                    path |-> <<>>, before |-> t]]
  ELSE [t |-> t, ret |-> TRUE, rb |-> NoRebuild, twoChildren |-> two]

\* the end of remove rebuilding only when size < alpha * maxSize
rebalanceAfterRemoveStrict(t, two) ==
  LET t2 == [t EXCEPT !.size = t.size - 1]
  IN  IF compareAlphaTimes(alpha, t2.size, t2.maxSize) > 0
      THEN LET sg == [scapegoat |-> t2.root, parent |-> NULL,
                      treeSize |-> t2.size]
           IN  [t |-> rebuild(t2, sg), ret |-> TRUE, twoChildren |-> two,
                rb |-> [happened |-> TRUE, sg |-> sg, node |-> NULL,
                        path |-> <<>>, before |-> t2]]
      ELSE [t |-> t2, ret |-> TRUE, rb |-> NoRebuild, twoChildren |-> two]

\* the end of remove: size--; if (size <= alpha * maxSize) rebuild the tree
rebalanceAfterRemove(t, two) ==
  LET t2 == [t EXCEPT !.size = t.size - 1]
  IN  IF AtMostAlphaTimes(alpha, t2.size, t2.maxSize)
      THEN LET sg == [scapegoat |-> t2.root, parent |-> NULL,
                      treeSize |-> t2.size]
           IN  [t |-> rebuild(t2, sg), ret |-> TRUE, twoChildren |-> two,
                rb |-> [happened |-> TRUE, sg |-> sg, node |-> NULL,
                        path |-> <<>>, before |-> t2]]
      ELSE [t |-> t2, ret |-> TRUE, rb |-> NoRebuild, twoChildren |-> two]

\* remove(key): [t, ret, rb, twoChildren]
remove(t, k) ==
  LET d == removeDescend(t, k, NULL, t.root)
  IN  IF ~d.found THEN removeAbsent(t)
      ELSE
      LET two == t.left[d.curr] # NULL /\ t.right[d.curr] # NULL
          t1 == IF two THEN removeNodeWithTwoChildren(t, d.curr)
                ELSE removeNodeWithoutChild(t, d.curr, d.prev)
      IN  rebalanceAfterRemove(t1, two)

\* --------------------------------------------------------------- verify
Max(a, b) == IF a >= b THEN a ELSE b

RECURSIVE verifyHelper(_, _)
verifyHelper(t, node) ==
  IF node = NULL
  THEN [balanced |-> TRUE, isBST |-> TRUE, size |-> 0, height |-> -1]
  ELSE LET l == verifyHelper(t, t.left[node])
           r == verifyHelper(t, t.right[node])
           bst == /\ l.isBST /\ r.isBST
                  /\ (t.left[node] # NULL => t.key[t.left[node]] < t.key[node])
                  /\ (t.right[node] # NULL => t.key[t.right[node]] > t.key[node])
           sz == l.size + r.size + 1
           height == Max(l.height, r.height) + 1
           max_height == getAlphaDeepHeight(sz) + 1
       IN  [balanced |-> height <= max_height, isBST |-> bst,
            size |-> sz, height |-> height]

\* size >= alpha * maxSize && balanced && isBST
verify(t) ==
  LET treeProperties == verifyHelper(t, t.root)
  IN  /\ AtLeastAlphaTimes(alpha, t.size, t.maxSize)
      /\ treeProperties.balanced
      /\ treeProperties.isBST

\* ----------------------------------------------------------- destruction
\* one iteration that deletes the root before reading root->right
dtorStepFreeFirst(t) ==
  IF t.root \notin live(t) THEN [t EXCEPT !.fault = TRUE]
  ELSE IF t.left[t.root] = NULL
  THEN LET t1 == Free(t, t.root)
       IN  IF t.root \in live(t1) THEN [t1 EXCEPT !.root = t1.right[t.root]]
           ELSE [t1 EXCEPT !.fault = TRUE]
  ELSE LET leftChild == t.left[t.root]
       IN  IF leftChild \notin live(t) THEN [t EXCEPT !.fault = TRUE]
           ELSE LET t1 == SetLeft(t, t.root, t.right[leftChild])
                    t2 == SetRight(t1, leftChild, t.root)
                IN  [t2 EXCEPT !.root = leftChild]

\* one iteration of while (root) in ~ScapegoatTree, root # nullptr
dtorStep(t) ==
  IF t.root \notin live(t) THEN [t EXCEPT !.fault = TRUE]
  ELSE IF t.left[t.root] = NULL
  THEN \* Node* next = root->right; delete root; root = next;
       LET next == t.right[t.root]
           t1 == Free(t, t.root)
       IN  [t1 EXCEPT !.root = next]
  ELSE \* rotate the root's left child into the root's place
       LET leftChild == t.left[t.root]
       IN  IF leftChild \notin live(t) THEN [t EXCEPT !.fault = TRUE]
           ELSE LET t1 == SetLeft(t, t.root, t.right[leftChild])
                    t2 == SetRight(t1, leftChild, t.root)
                IN  [t2 EXCEPT !.root = leftChild]

\* ---------------------------------------------------------- construction
\* GenericScapegoatTree.h: checkInvalidAlpha throws iff this holds
checkInvalidAlpha(a) == RatLeq(a, kMinAlpha) \/ RatLeq(kMaxAlpha, a)

\* the constructor accepting alpha = kMinAlpha
ctorThrowsBelowMin(a) == ~RatLeq(kMinAlpha, a) \/ RatLeq(kMaxAlpha, a)

\* ScapegoatTree.cpp: the constructor throws iff this holds
ctorThrows(a) == RatLeq(a, kMinAlpha) \/ RatLeq(kMaxAlpha, a)

\* the object before the constructor body runs
Constructing ==
  /\ phase = "constructing"
  /\ alpha = kDefaultAlpha
  /\ root = EmptyTree.root /\ key = EmptyTree.key
  /\ left = EmptyTree.left /\ right = EmptyTree.right
  /\ size = EmptyTree.size /\ maxSize = EmptyTree.maxSize
  /\ replaceWithSucc = EmptyTree.replaceWithSucc
  /\ fault = FALSE
  /\ op = [name |-> "none", arg |-> 0]
  /\ ret = FALSE
  /\ rb = NoRebuild
  /\ S = {} /\ nIns = 0 /\ nRem = 0

\* the state a constructor call leaves
Constructed(name, a, throws) ==
  /\ phase' = IF throws THEN "threw" ELSE "alive"
  /\ alpha' = IF throws THEN alpha ELSE a
  /\ op' = [name |-> name, arg |-> a]
  /\ ret' = ~throws
  /\ UNCHANGED <<root, key, left, right, size, maxSize, replaceWithSucc,
                 fault, rb, S, nIns, nRem>>

\* ScapegoatTree::ScapegoatTree(double alpha)
Construct(a) ==
  /\ phase = "constructing"
  /\ Constructed("ScapegoatTree", a, ctorThrows(a))

\* ScapegoatTree<T>::ScapegoatTree(double alpha)
ConstructGeneric(a) ==
  /\ phase = "constructing"
  /\ Constructed("ScapegoatTree<T>", a, checkInvalidAlpha(a))

\* ------------------------------------------------------ public operations
\* the fields of the object after a call that returned r
Apply(r) ==
  /\ root' = r.t.root /\ key' = r.t.key
  /\ left' = r.t.left /\ right' = r.t.right
  /\ size' = r.t.size /\ maxSize' = r.t.maxSize
  /\ replaceWithSucc' = r.t.replaceWithSucc
  /\ fault' = r.t.fault
  /\ ret' = r.ret
  /\ rb' = r.rb

InsertCall(k) ==
  /\ phase = "alive" /\ ~fault
  /\ LET r == insert(tree, k)
     IN  /\ Apply(r)
         /\ op' = [name |-> "insert", arg |-> k]
         /\ S' = S \cup {k}
         /\ nIns' = IF r.ret THEN nIns + 1 ELSE nIns
  /\ UNCHANGED <<phase, alpha, nRem>>

RemoveCall(k) ==
  /\ phase = "alive" /\ ~fault
  /\ LET r == remove(tree, k)
     IN  /\ Apply(r)
         /\ op' = [name |-> "remove", arg |-> k, twoChildren |-> r.twoChildren]
         /\ S' = S \ {k}
         /\ nRem' = IF r.ret THEN nRem + 1 ELSE nRem
  /\ UNCHANGED <<phase, alpha, nIns>>

Insert(k) == nIns < MaxInserts /\ InsertCall(k)
Remove(k) == RemoveCall(k)

\* ----------------------------------------------------------- specifications
\* the tree after construction with a valid alpha out of A
InitWith(A) ==
  \E a \in A :
    /\ phase = "alive" /\ alpha = a
    /\ root = EmptyTree.root /\ key = EmptyTree.key
    /\ left = EmptyTree.left /\ right = EmptyTree.right
    /\ size = EmptyTree.size /\ maxSize = EmptyTree.maxSize
    /\ replaceWithSucc = EmptyTree.replaceWithSucc
    /\ fault = FALSE
    /\ op = [name |-> "ScapegoatTree", arg |-> a]
    /\ ret = TRUE
    /\ rb = NoRebuild
    /\ S = {} /\ nIns = 0 /\ nRem = 0

Init == InitWith(Alphas)

Next ==
  \/ \E k \in Keys : Insert(k)
  \/ \E k \in Keys : Remove(k)

Spec == Init /\ [][Next]_vars

\* insert-at-the-ends workload: the first key is any key of 1..MaxEndsKey,
\* every later key is one below the smallest or one above the largest key;
\* up to MaxEndsRemoves calls remove the smallest or the largest key
MinOf(X) == CHOOSE x \in X : \A y \in X : x <= y
MaxOf(X) == CHOOSE x \in X : \A y \in X : x >= y

InitEnds == InitWith(EndsAlphas)

InsertFirst(k) == S = {} /\ InsertCall(k)
InsertBelow == S # {} /\ MinOf(S) > 1 /\ InsertCall(MinOf(S) - 1)
InsertAbove == S # {} /\ MaxOf(S) < MaxEndsKey /\ InsertCall(MaxOf(S) + 1)
RemoveLowest == nRem < MaxEndsRemoves /\ S # {} /\ RemoveCall(MinOf(S))
RemoveHighest == nRem < MaxEndsRemoves /\ S # {} /\ RemoveCall(MaxOf(S))

NextEnds ==
  \/ \E k \in 1..MaxEndsKey : InsertFirst(k)
  \/ InsertBelow
  \/ InsertAbove
  \/ RemoveLowest
  \/ RemoveHighest

SpecEnds == InitEnds /\ [][NextEnds]_vars

\* fill-then-drain workload: the keys of FillKeys are inserted in any order,
\* then up to MaxFillRemoves keys are removed; no insert follows a remove
InitFill == InitWith(Alphas)

FillInsert(k) == nRem = 0 /\ k \notin S /\ InsertCall(k)
DrainRemove(k) == nRem < MaxFillRemoves /\ k \in S /\ RemoveCall(k)

NextFill ==
  \/ \E k \in FillKeys : FillInsert(k)
  \/ \E k \in FillKeys : DrainRemove(k)

SpecFill == InitFill /\ [][NextFill]_vars

\* fill-and-trim workload: the den keys -1, 0, 1, ..., den - 2 are inserted in
\* increasing order (the first two are no cell of the heap, so their nodes
\* take the lowest free cells), den being the denominator of alpha, then the
\* smallest or the largest key is removed until MaxBelowBoundary keys fewer
\* than the numerator remain; on the way size passes num with maxSize = den
InitBoundary == InitWith(BoundaryAlphas)

FillAscending == nRem = 0 /\ nIns < alpha[2] /\ InsertCall(nIns - 1)
TrimLowest ==
  /\ nIns = alpha[2] /\ size + MaxBelowBoundary > alpha[1]
  /\ RemoveCall(MinOf(S))
TrimHighest ==
  /\ nIns = alpha[2] /\ size + MaxBelowBoundary > alpha[1]
  /\ RemoveCall(MaxOf(S))

NextBoundary == FillAscending \/ TrimLowest \/ TrimHighest

SpecBoundary == InitBoundary /\ [][NextBoundary]_vars

\* construction: both constructors on every argument of AlphaArgs
InitCtor == Constructing

NextCtor ==
  \/ \E a \in AlphaArgs : Construct(a)
  \/ \E a \in AlphaArgs : ConstructGeneric(a)

SpecCtor == InitCtor /\ [][NextCtor]_vars

\* rebuild as a function of the subtree: every binary search tree shape over
\* the nodes lo..hi, node i holding key i
RECURSIVE Trees(_, _)
Trees(lo, hi) ==
  IF lo > hi
  THEN {[root |-> NULL, left |-> <<>>, right |-> <<>>]}
  ELSE UNION {{[root  |-> k,
                left  |-> (k :> a.root) @@ a.left @@ b.left,
                right |-> (k :> b.root) @@ a.right @@ b.right]
               : a \in Trees(lo, k - 1), b \in Trees(k + 1, hi)}
              : k \in lo..hi}

InitRebuild ==
  \E n \in 0..MaxNodes : \E sh \in Trees(1, n) :
    /\ phase = "alive" /\ alpha = Rat(3, 5)
    /\ root = sh.root /\ key = [i \in 1..n |-> i]
    /\ left = sh.left /\ right = sh.right
    /\ size = n /\ maxSize = n
    /\ replaceWithSucc = EmptyTree.replaceWithSucc
    /\ fault = FALSE
    /\ op = [name |-> "ScapegoatTree", arg |-> Rat(3, 5)]
    /\ ret = TRUE
    /\ rb = NoRebuild
    /\ S = 1..n /\ nIns = n /\ nRem = 0

\* the parent of node x, nullptr for the root
parentOf(t, x) ==
  IF t.root = x THEN NULL
  ELSE CHOOSE p \in live(t) : t.left[p] = x \/ t.right[p] = x

\* rebuild({x, parent of x, size of the subtree of x})
RebuildCall(x) ==
  /\ phase = "alive" /\ ~fault /\ x \in live(tree)
  /\ LET sg == [scapegoat |-> x, parent |-> parentOf(tree, x),
                treeSize |-> getSubtreeSize(tree, x),
                index |-> 0, underflow |-> FALSE]
     IN  Apply([t   |-> rebuild(tree, sg),
                ret |-> TRUE,
                rb  |-> [happened |-> TRUE, sg |-> sg, node |-> NULL,
                         path |-> <<>>, before |-> tree]])
  /\ op' = [name |-> "rebuild", arg |-> x]
  /\ UNCHANGED <<phase, alpha, S, nIns, nRem>>

NextRebuild == \E x \in 1..MaxNodes : RebuildCall(x)

SpecRebuild == InitRebuild /\ [][NextRebuild]_vars

\* the destructor, one loop iteration per step, on every tree shape of up to
\* MaxNodes nodes
InitTeardown == InitRebuild

DtorIteration ==
  /\ phase \in {"alive", "destroying"} /\ ~fault
  /\ root # NULL
  /\ LET t == dtorStep(tree)
     IN  /\ root' = t.root /\ key' = t.key
         /\ left' = t.left /\ right' = t.right
         /\ fault' = t.fault
  /\ phase' = "destroying"
  /\ op' = [name |-> "~ScapegoatTree", arg |-> root]
  /\ rb' = NoRebuild
  /\ UNCHANGED <<alpha, size, maxSize, replaceWithSucc, ret, S, nIns, nRem>>

\* case 1: the root has no left child
DtorFree == (root \in live(tree) => left[root] = NULL) /\ DtorIteration

\* case 2: the root has a left child
DtorRotate == (root \in live(tree) /\ left[root] # NULL) /\ DtorIteration

\* while (root) ends
DtorExit ==
  /\ phase \in {"alive", "destroying"} /\ ~fault
  /\ root = NULL
  /\ phase' = "destroyed"
  /\ UNCHANGED <<alpha, root, key, left, right, size, maxSize,
                 replaceWithSucc, fault, op, ret, rb, S, nIns, nRem>>

NextTeardown == DtorFree \/ DtorRotate \/ DtorExit

\* the destructor runs to completion once entered
SpecTeardown ==
  InitTeardown /\ [][NextTeardown]_vars /\ WF_vars(NextTeardown)

\* verify as a function of the object: every tree shape of up to
\* MaxVerifyNodes nodes, every assignment of keys 1..MaxVerifyKey to its nodes
\* and every size and maxSize of 0..MaxVerifyNodes, and size = num with
\* maxSize = den
InitVerify ==
  \E a \in VerifyAlphas : \E n \in 0..MaxVerifyNodes : \E sh \in Trees(1, n) :
  \E ks \in [1..n -> 1..MaxVerifyKey] :
  \E sizes \in ((0..MaxVerifyNodes) \X (0..MaxVerifyNodes)) \cup {a} :
    /\ phase = "alive" /\ alpha = a
    /\ root = sh.root /\ key = ks
    /\ left = sh.left /\ right = sh.right
    /\ size = sizes[1] /\ maxSize = sizes[2]
    /\ replaceWithSucc = EmptyTree.replaceWithSucc
    /\ fault = FALSE
    /\ op = [name |-> "ScapegoatTree", arg |-> a]
    /\ ret = TRUE
    /\ rb = NoRebuild
    /\ S = {ks[i] : i \in 1..n} /\ nIns = n /\ nRem = 0

\* verify() const
VerifyCall ==
  /\ phase = "alive" /\ ~fault
  /\ op.name # "verify"
  /\ ret' = verify(tree)
  /\ op' = [name |-> "verify", arg |-> NULL]
  /\ UNCHANGED <<phase, alpha, root, key, left, right, size, maxSize,
                 replaceWithSucc, fault, rb, S, nIns, nRem>>

NextVerify == VerifyCall

SpecVerify == InitVerify /\ [][NextVerify]_vars

\* ================================================================ claims
\* the nodes of the subtree rooted at n
RECURSIVE Sub(_, _)
Sub(t, n) ==
  IF n = NULL THEN {} ELSE {n} \cup Sub(t, t.left[n]) \cup Sub(t, t.right[n])

KeysIn(t, n) == {t.key[m] : m \in Sub(t, n)}

\* height of the subtree rooted at n: -1 when empty, 0 for a single node
RECURSIVE Height(_, _)
Height(t, n) ==
  IF n = NULL THEN -1
  ELSE 1 + Max(Height(t, t.left[n]), Height(t, t.right[n]))

\* the nodes of the subtree rooted at n in in-order
RECURSIVE InOrder(_, _)
InOrder(t, n) ==
  IF n = NULL THEN <<>>
  ELSE InOrder(t, t.left[n]) \o <<n>> \o InOrder(t, t.right[n])

\* the shape of the subtree rooted at n: <<left shape, key, right shape>>
RECURSIVE Shape(_, _)
Shape(t, n) ==
  IF n = NULL THEN <<>>
  ELSE <<Shape(t, t.left[n]), t.key[n], Shape(t, t.right[n])>>

\* every node's key lies strictly between all keys of its left subtree and
\* all keys of its right subtree
OrderedTree(t) ==
  \A n \in Sub(t, t.root) :
    /\ \A m \in Sub(t, t.left[n]) : t.key[m] < t.key[n]
    /\ \A m \in Sub(t, t.right[n]) : t.key[m] > t.key[n]

AfterCall == phase = "alive" /\ op.name \in {"insert", "remove"}

\* C1: after every insert or remove call, every node's key is strictly
\* greater than every key of its left subtree and strictly smaller than every
\* key of its right subtree.
BSTInvariant == OrderedTree(tree)

\* a two-child removal left a tree in which some node has a left subtree of
\* two or more nodes and a right subtree
BSTInvariantWitness ==
  /\ op.name = "remove" /\ ret /\ op.twoChildren
  /\ \E n \in Sub(tree, root) :
       /\ Cardinality(Sub(tree, left[n])) >= 2
       /\ right[n] # NULL

\* C2: after every insert or remove call verify() returns true: size is at
\* least alpha * maxSize, every node is ordered against its children, and the
\* height of the whole tree is at most alphaDeepHeight(size) + 1.
VerifyAfterCall == AfterCall => verify(tree)

NodeBalanced(t, n) ==
  Height(t, n) <= getAlphaDeepHeight(Cardinality(Sub(t, n))) + 1

\* C2 as stated: verify() returns true and every node, not only the root, has
\* subtree height at most alphaDeepHeight(subtree size) + 1.
EveryNodeBalanced ==
  AfterCall => /\ verify(tree)
               /\ \A n \in Sub(tree, root) : NodeBalanced(tree, n)

\* verify() returns true in a tree with a node below the root whose subtree
\* is higher than alphaDeepHeight(subtree size) + 1
VerifyAfterCallWitness ==
  /\ AfterCall /\ verify(tree) /\ size >= 2
  /\ \E n \in Sub(tree, root) \ {root} : ~NodeBalanced(tree, n)

\* C3: after any sequence of insert and remove calls, search(k) is true
\* exactly for the keys k of the set S that insert adds to and remove deletes
\* from, with the integer comparison and with the generic default comparison.
Membership ==
  \A k \in 0..(MaxEndsKey + 1) :
    /\ search(tree, k) <=> k \in S
    /\ searchGeneric(tree, k) <=> k \in S

\* a two-child removal that also rebuilt the tree left two or more keys
MembershipWitness ==
  /\ op.name = "remove" /\ ret /\ op.twoChildren
  /\ rb.happened /\ size >= 2
  /\ \A k \in S : search(tree, k)

\* C4: insert(k) returns false exactly when k is present and remove(k) exactly
\* when k is absent, so a remove repeated after a successful remove of the same
\* key returns false; a call that returns false changes no node, key, size,
\* maxSize or replaceWithSucc and rebuilds nothing.
ReturnContractStep ==
  /\ op'.name = "insert" => (ret' <=> ~search(tree, op'.arg))
  /\ op'.name = "remove" => (ret' <=> search(tree, op'.arg))
  /\ (op'.name = "remove" /\ op.name = "remove" /\ op'.arg = op.arg /\ ret)
       => ~ret'
  /\ (op'.name \in {"insert", "remove"} /\ ~ret')
       => /\ tree' = tree
          /\ ~rb'.happened

ReturnContract == [][ReturnContractStep]_vars

\* a remove of an absent key returned false on a tree of two or more keys
\* after an earlier remove had returned true
ReturnContractWitness ==
  /\ op.name = "remove" /\ ~ret /\ size >= 2 /\ nRem >= 1
  /\ op.arg \notin S

\* C5: size equals the number of insert calls that returned true minus the
\* number of remove calls that returned true, and equals the number of nodes
\* reachable from root; when it is 0 the root is empty.
SizeAccounting ==
  /\ size = nIns - nRem
  /\ size = Cardinality(Sub(tree, root))
  /\ size = 0 <=> root = NULL

\* the last key was removed after two or more inserts
SizeAccountingWitness ==
  /\ op.name = "remove" /\ ret /\ size = 0 /\ nIns >= 2 /\ rb.happened

\* C6: after every call, alpha * maxSize <= size <= maxSize, both as the
\* code compares the doubles and for the rational alpha exactly; and size is
\* not at or below alpha * maxSize, as the code computes it, unless maxSize
\* has been reset to size.
MaxSizeBracket ==
  /\ AtLeastAlphaTimes(alpha, size, maxSize)
  /\ alpha[1] * maxSize <= size * alpha[2]
  /\ size <= maxSize
  /\ maxSize # size => compareAlphaTimes(alpha, size, maxSize) < 0

\* a remove left size = num with maxSize = den, where the double product
\* alpha * maxSize is just below size, and did not rebuild: the lower end of
\* the bracket is attained with maxSize not reset
MaxSizeBracketWitness ==
  /\ op.name = "remove" /\ ret /\ ~rb.happened /\ size < maxSize
  /\ size * alpha[2] = alpha[1] * maxSize

\* C7: after any sequence of calls the height of the whole tree is at most
\* alphaDeepHeight(size) + 1; with alpha = 0.6 this bounds the height by 4
\* after the keys 1..7 were inserted in increasing order.
HeightBound ==
  size >= 1 => Height(tree, root) <= getAlphaDeepHeight(size) + 1

\* the tree after insert(1), ..., insert(n) on t
RECURSIVE insertAscending(_, _)
insertAscending(t, n) ==
  IF n = 0 THEN t ELSE insert(insertAscending(t, n - 1), n).t

\* alpha = 0.6 and the keys 1..7 were inserted in increasing order
HeightBoundWitness ==
  /\ alpha = Rat(3, 5)
  /\ op = [name |-> "insert", arg |-> 7] /\ ret
  /\ nIns = 7 /\ nRem = 0 /\ S = 1..7
  /\ tree = insertAscending(EmptyTree, 7)
  /\ Height(tree, root) <= 4

\* C8: a remove(k) that finds k in a node with two children leaves exactly
\* the old keys without k in an ordered tree; the node stays where it was and
\* takes the minimum key of its right subtree when replaceWithSucc is true,
\* the maximum key of its left subtree otherwise; the node that held that key
\* had at most one child, is freed, and that child takes its slot.
TwoChildRemovalStep ==
  (op'.name = "remove" /\ ret' /\ op'.twoChildren) =>
    LET k == op'.arg
        n == CHOOSE x \in Sub(tree, root) : key[x] = k
        \* the tree after the splice and before the rebuild, if any
        mid == IF rb'.happened THEN rb'.before ELSE tree'
        newKey == IF replaceWithSucc THEN MinOf(KeysIn(tree, right[n]))
                  ELSE MaxOf(KeysIn(tree, left[n]))
        m == CHOOSE x \in Sub(tree, root) : key[x] = newKey
        c == IF left[m] # NULL THEN left[m] ELSE right[m]
    IN  /\ left[n] # NULL /\ right[n] # NULL
        /\ KeysIn(tree', root') = KeysIn(tree, root) \ {k}
        /\ OrderedTree(tree')
        /\ n \in live(mid) /\ mid.key[n] = newKey /\ key'[n] = newKey
        /\ root = n => mid.root = n
        /\ \A p \in Sub(tree, root) :
             /\ left[p] = n => mid.left[p] = n
             /\ right[p] = n => mid.right[p] = n
        /\ m # n /\ live(mid) = live(tree) \ {m}
        /\ left[m] = NULL \/ right[m] = NULL
        /\ \A p \in Sub(tree, root) :
             /\ left[p] = m => mid.left[p] = c
             /\ right[p] = m => mid.right[p] = c

TwoChildRemoval == [][TwoChildRemovalStep]_vars

Leaf(k) == <<<<>>, k, <<>>>>

\* 5, 3, 8, 1, 4, 7, 9 were inserted and 5 was removed: the root now holds
\* the successor 7 over {1, 3, 4} and {8, 9}
TwoChildRemovalWitness ==
  /\ op = [name |-> "remove", arg |-> 5, twoChildren |-> TRUE] /\ ret
  /\ nIns = 7 /\ nRem = 1 /\ ~replaceWithSucc
  /\ KeysIn(tree, root) = {1, 3, 4, 7, 8, 9}
  /\ Shape(tree, root) =
       <<<<Leaf(1), 3, Leaf(4)>>, 7, <<<<>>, 8, Leaf(9)>>>>

\* C9: a rebuild of a subtree of n nodes creates and frees no node and copies
\* no key; the rebuilt subtree has the same n nodes, and the in-order sequence
\* of nodes and keys of the subtree and of the whole tree is what it was.
KeySeq(t, n) ==
  LET ns == InOrder(t, n) IN [i \in 1..Len(ns) |-> t.key[ns[i]]]

RebuildPreserves ==
  rb.happened =>
    LET b  == rb.before
        sg == rb.sg
        now == IF sg.parent = NULL THEN root
               ELSE IF b.left[sg.parent] = sg.scapegoat THEN left[sg.parent]
               ELSE right[sg.parent]
    IN  /\ live(tree) = live(b)
        /\ \A n \in live(b) : key[n] = b.key[n]
        /\ Sub(tree, now) = Sub(b, sg.scapegoat)
        /\ Cardinality(Sub(tree, now)) = sg.treeSize
        /\ InOrder(tree, now) = InOrder(b, sg.scapegoat)
        /\ KeySeq(tree, now) = KeySeq(b, sg.scapegoat)
        /\ InOrder(tree, root) = InOrder(b, b.root)
        /\ KeySeq(tree, root) = KeySeq(b, b.root)

\* a subtree of four or more nodes below a parent was rebuilt into another
\* shape
RebuildPreservesWitness ==
  /\ rb.happened /\ rb.sg.parent # NULL /\ rb.sg.treeSize >= 4
  /\ \E n \in {left[rb.sg.parent], right[rb.sg.parent]} :
       /\ Sub(tree, n) = Sub(rb.before, rb.sg.scapegoat)
       /\ Shape(tree, n) # Shape(rb.before, rb.sg.scapegoat)

\* C10: both constructors throw for every alpha <= 0.5 and every
\* alpha >= 1.0, and for every alpha strictly between they store alpha as
\* given and leave an empty tree with size 0 and maxSize 0.
ConstructionValidation ==
  op.name \in {"ScapegoatTree", "ScapegoatTree<T>"} =>
    LET a == op.arg
        inside == 2 * a[1] > a[2] /\ a[1] < a[2]
    IN  /\ ~inside => phase = "threw" /\ ~ret
        /\ inside => /\ phase = "alive" /\ ret
                     /\ alpha = a
                     /\ root = NULL /\ size = 0 /\ maxSize = 0
                     /\ live(tree) = {}

\* the integer-key constructor threw on alpha = 0.5
ConstructionValidationWitness ==
  /\ op = [name |-> "ScapegoatTree", arg |-> Rat(1, 2)]
  /\ phase = "threw"

\* C11: as documented in ScapegoatTree.h, the integer-key constructor throws
\* exactly when alpha is not within [0.5, 1), so alpha = 0.5 is accepted.
DocumentedAlphaRange ==
  op.name = "ScapegoatTree" =>
    LET a == op.arg
    IN  phase = "threw" <=> ~(a[2] <= 2 * a[1] /\ a[1] < a[2])

\* C12: verify() returns true if and only if size >= alpha * maxSize, every
\* node's subtree height is at most alphaDeepHeight(subtree size) + 1, and
\* every node's key lies strictly between all keys of its left subtree and
\* all keys of its right subtree.
VerifyExactOracle ==
  op.name = "verify" =>
    (ret <=> /\ AtLeastAlphaTimes(alpha, size, maxSize)
             /\ \A n \in Sub(tree, root) : NodeBalanced(tree, n)
             /\ OrderedTree(tree))

\* the root of the subtree the last rebuild put in place of the scapegoat
RebuiltRoot ==
  IF rb.sg.parent = NULL THEN root
  ELSE IF rb.before.left[rb.sg.parent] = rb.sg.scapegoat
  THEN left[rb.sg.parent]
  ELSE right[rb.sg.parent]

CeilHalf(x) == (x + 1) \div 2
FloorHalf(x) == x \div 2

\* floor(log2(n)) for n >= 1
RECURSIVE Log2Floor(_)
Log2Floor(n) == IF n <= 1 THEN 0 ELSE 1 + Log2Floor(n \div 2)

\* C13: after a rebuild of a subtree of n nodes every node of the rebuilt
\* subtree, of subtree size m, has exactly ceil((m-1)/2) nodes to its left and
\* floor((m-1)/2) nodes to its right, and the rebuilt subtree has height
\* floor(log2(n)) when n >= 1, whatever the subtree looked like before.
RebuildShape ==
  rb.happened =>
    /\ \A n \in Sub(tree, RebuiltRoot) :
         LET m == Cardinality(Sub(tree, n))
         IN  /\ Cardinality(Sub(tree, left[n])) = CeilHalf(m - 1)
             /\ Cardinality(Sub(tree, right[n])) = FloorHalf(m - 1)
    /\ rb.sg.treeSize >= 1 =>
         Height(tree, RebuiltRoot) = Log2Floor(rb.sg.treeSize)
    /\ rb.sg.treeSize = 0 => RebuiltRoot = NULL

\* a chain of four nodes below a parent was rebuilt: two nodes went left of
\* the new subtree root and one went right
RebuildShapeWitness ==
  /\ rb.happened /\ rb.sg.parent # NULL /\ rb.sg.treeSize = 4
  /\ Height(rb.before, rb.sg.scapegoat) = 3
  /\ Height(tree, RebuiltRoot) = 2
  /\ Cardinality(Sub(tree, left[RebuiltRoot])) = 2
  /\ Cardinality(Sub(tree, right[RebuiltRoot])) = 1

\* the i-th ancestor of the node the last rebuilding insert linked in
\* (the parent is i = 1; one past the root is nullptr)
Ancestor(i) == rb.path[Len(rb.path) - i + 1]

\* ancestor i is a scapegoat candidate: i > alphaDeepHeight(size of its subtree)
Candidate(i) ==
  i > getAlphaDeepHeight(Cardinality(Sub(rb.before, Ancestor(i))))

\* C14: whenever insert calls findScapegoat (the new node has depth d >= 1
\* and d > alphaDeepHeight(size)), the call pops no empty path and returns
\* the deepest ancestor n_i with i > alphaDeepHeight(size of n_i's subtree);
\* the returned parent is that node's parent (nullptr for the root) and the
\* returned treeSize is the node count of its subtree, new node included.
ScapegoatSelection ==
  /\ op.name = "insert" => ~fault
  /\ (rb.happened /\ op.name = "insert") =>
       LET b  == rb.before
           sg == rb.sg
           d  == Len(rb.path) - 1
       IN  /\ ~sg.underflow
           /\ d >= 1 /\ d > getAlphaDeepHeight(b.size)
           /\ \E i \in 1..d :
                /\ sg.scapegoat = Ancestor(i)
                /\ Candidate(i)
                /\ \A j \in 1..(i - 1) : ~Candidate(j)
                /\ sg.parent = Ancestor(i + 1)
           /\ sg.parent = NULL <=> sg.scapegoat = b.root
           /\ sg.parent # NULL =>
                sg.scapegoat \in {b.left[sg.parent], b.right[sg.parent]}
           /\ rb.node \in Sub(b, sg.scapegoat)
           /\ sg.treeSize = Cardinality(Sub(b, sg.scapegoat))

\* an insert chose a scapegoat that is neither the parent of the new node nor
\* the root
ScapegoatSelectionWitness ==
  /\ rb.happened /\ op.name = "insert"
  /\ rb.sg.parent # NULL
  /\ rb.sg.scapegoat # Ancestor(1)
  /\ Len(rb.path) >= 4

\* the child of the last insert's scapegoat on the path to the new node
ChildOnPath ==
  IF rb.node \in Sub(rb.before, rb.before.left[rb.sg.scapegoat])
  THEN rb.before.left[rb.sg.scapegoat]
  ELSE rb.before.right[rb.sg.scapegoat]

\* C15: in every insert that rebuilds, the scapegoat's child on the path to
\* the new node has a subtree strictly larger than alpha times the
\* scapegoat's subtree, sizes counted with the new leaf linked in.
WeightImbalanced ==
  (rb.happened /\ op.name = "insert") =>
    /\ rb.node \in Sub(rb.before, ChildOnPath)
    /\ Cardinality(Sub(rb.before, ChildOnPath)) * alpha[2]
         > alpha[1] * Cardinality(Sub(rb.before, rb.sg.scapegoat))

\* the scapegoat of an insert was a node below the root with six or more
\* nodes, and its other child was not empty
WeightImbalancedWitness ==
  /\ rb.happened /\ op.name = "insert"
  /\ rb.sg.parent # NULL
  /\ Cardinality(Sub(rb.before, rb.sg.scapegoat)) >= 6
  /\ Cardinality(Sub(rb.before, ChildOnPath)) + 1
       < Cardinality(Sub(rb.before, rb.sg.scapegoat))

\* the number of nodes on the search path for key k from node n
RECURSIVE PathLength(_, _, _)
PathLength(t, n, k) ==
  IF n = NULL \/ t.key[n] = k THEN 0
  ELSE 1 + PathLength(t, IF k < t.key[n] THEN t.left[n] ELSE t.right[n], k)

\* the slots (root, left or right of a node) of t that hold node n
Slots(t, n) ==
  {<<"root", NULL>> : x \in {r \in {t.root} : r = n}}
    \cup {<<"left", p>> : p \in {q \in live(t) : t.left[q] = n}}
    \cup {<<"right", p>> : p \in {q \in live(t) : t.right[q] = n}}

\* C16: a successful insert(k) rebuilds if and only if the depth d of the new
\* leaf satisfies d >= 1 and d > alphaDeepHeight(size after the increment);
\* without a rebuild the only changes are the new leaf in its BST position,
\* size + 1 and maxSize = max(maxSize, size); with a rebuild, only the links
\* of one subtree and the slot holding it change.
InsertTriggerStep ==
  (op'.name = "insert" /\ ret') =>
    LET k == op'.arg
        d == PathLength(tree, root, k)
        new == live(tree') \ live(tree)
    IN  /\ size' = size + 1
        /\ rb'.happened <=> (d >= 1 /\ d > getAlphaDeepHeight(size + 1))
        /\ replaceWithSucc' = replaceWithSucc
        /\ Cardinality(new) = 1
        /\ \A n \in new : key'[n] = k
        /\ \A m \in live(tree) : m \in live(tree') /\ key'[m] = key[m]
        /\ ~rb'.happened =>
             /\ maxSize' = Max(maxSize, size + 1)
             /\ OrderedTree(tree')
             /\ \A n \in new :
                  /\ left'[n] = NULL /\ right'[n] = NULL
                  /\ Cardinality(Slots(tree', n)) = 1
                  /\ Slots(tree, NULL) \ Slots(tree', NULL) = Slots(tree', n)
             /\ \A m \in live(tree) :
                  /\ left[m] # NULL => left'[m] = left[m]
                  /\ right[m] # NULL => right'[m] = right[m]
             /\ root # NULL => root' = root
        /\ rb'.happened =>
             LET b  == rb'.before
                 sg == rb'.sg
                 in == Sub(b, sg.scapegoat)
             IN  /\ b.size = size + 1 /\ b.maxSize = Max(maxSize, size + 1)
                 /\ maxSize' = IF sg.parent = NULL THEN size' ELSE b.maxSize
                 /\ \A m \in live(b) \ in :
                      /\ left'[m] = b.left[m] \/ (m = sg.parent /\ b.left[m] = sg.scapegoat)
                      /\ right'[m] = b.right[m] \/ (m = sg.parent /\ b.right[m] = sg.scapegoat)
                 /\ sg.parent # NULL => root' = b.root
                 /\ Sub(tree', root') = Sub(b, b.root)

InsertTrigger == [][InsertTriggerStep]_vars

\* an insert linked a leaf at depth exactly alphaDeepHeight(size) >= 2 and
\* did not rebuild
InsertTriggerWitness ==
  /\ op.name = "insert" /\ ret /\ ~rb.happened
  /\ PathLength(tree, root, op.arg) = getAlphaDeepHeight(size)
  /\ getAlphaDeepHeight(size) >= 2

\* every node of the whole tree t has ceil((m-1)/2) nodes to its left and
\* floor((m-1)/2) to its right, m being its subtree size
WeightBalancedShape(t) ==
  \A n \in Sub(t, t.root) :
    LET m == Cardinality(Sub(t, n))
    IN  /\ Cardinality(Sub(t, t.left[n])) = CeilHalf(m - 1)
        /\ Cardinality(Sub(t, t.right[n])) = FloorHalf(m - 1)

\* C17: a successful remove decrements size and then, if and only if
\* size <= alpha * maxSize (the product rounded to a double, as the code
\* computes it), rebuilds the entire tree from the root into the
\* weight-balanced shape (an empty root when size = 0) and sets
\* maxSize = size; otherwise maxSize is unchanged. A rebuild below the root
\* leaves maxSize alone, a rebuild at the root sets maxSize = size.
RemoveRebalanceStep ==
  /\ (op'.name = "remove" /\ ret') =>
       /\ size' = size - 1
       /\ IF AtMostAlphaTimes(alpha, size - 1, maxSize)
          THEN /\ rb'.happened
               /\ rb'.sg.parent = NULL /\ rb'.sg.scapegoat = rb'.before.root
               /\ rb'.sg.treeSize = size - 1
               /\ rb'.before.maxSize = maxSize
               /\ maxSize' = size'
               /\ Cardinality(Sub(tree', root')) = size'
               /\ WeightBalancedShape(tree')
               /\ size' = 0 => root' = NULL
          ELSE /\ ~rb'.happened
               /\ maxSize' = maxSize
  /\ rb'.happened =>
       IF rb'.sg.parent = NULL THEN maxSize' = size'
       ELSE /\ op'.name = "insert"
            /\ maxSize' = rb'.before.maxSize
            /\ maxSize' = Max(maxSize, size + 1)

RemoveRebalance == [][RemoveRebalanceStep]_vars

\* a remove left size = num with maxSize = den, three or more keys, where the
\* double product alpha * maxSize is size or just above it, and rebuilt the
\* whole tree
RemoveRebalanceWitness ==
  /\ op.name = "remove" /\ ret /\ rb.happened
  /\ size >= 3 /\ maxSize = size
  /\ rb.before.size * alpha[2] = alpha[1] * rb.before.maxSize
  /\ Shape(tree, root) # Shape(rb.before, rb.before.root)

\* the step is a successful remove of a key held by a node with two children
TwoChildRemove ==
  /\ op'.name = "remove" /\ ret'
  /\ \E n \in Sub(tree, root) :
       key[n] = op'.arg /\ left[n] # NULL /\ right[n] # NULL

\* C18: replaceWithSucc starts true, is flipped by every successful remove
\* of a node with two children and by nothing else, and such a remove takes
\* the successor when replaceWithSucc is true and the predecessor when it is
\* false; so the successor is taken by the 1st, 3rd, ... two-child removal.
AlternationStep ==
  /\ replaceWithSucc' = IF TwoChildRemove THEN ~replaceWithSucc
                        ELSE replaceWithSucc
  /\ TwoChildRemove =>
       LET n == CHOOSE x \in Sub(tree, root) : key[x] = op'.arg
       IN  key'[n] = IF replaceWithSucc THEN MinOf(KeysIn(tree, right[n]))
                     ELSE MaxOf(KeysIn(tree, left[n]))

Alternation == (replaceWithSucc = TRUE) /\ [][AlternationStep]_vars

\* the second two-child removal of a history has just flipped replaceWithSucc
\* back to true
AlternationWitness ==
  /\ op.name = "remove" /\ ret /\ op.twoChildren
  /\ nRem = 2 /\ nIns = 5 /\ size = 3
  /\ replaceWithSucc

\* the number of nodes on the right spine from node n
RECURSIVE RightSpineLength(_, _)
RightSpineLength(t, n) ==
  IF n = NULL THEN 0 ELSE 1 + RightSpineLength(t, t.right[n])

\* C19: from any tree the destructor loop terminates with root empty, frees
\* every node exactly once, reads no freed node, and each iteration either
\* frees the root (no left child) or rotates its left child up.
TeardownStep ==
  (op'.name = "~ScapegoatTree" /\ phase' = "destroying") =>
    /\ ~fault'
    /\ root \in live(tree)
    /\ \/ /\ left[root] = NULL
          /\ live(tree') = live(tree) \ {root}
          /\ root' = right[root]
          /\ \A m \in live(tree') :
               left'[m] = left[m] /\ right'[m] = right[m]
       \/ /\ left[root] # NULL
          /\ live(tree') = live(tree)
          /\ root' = left[root]
          /\ left'[root] = right[left[root]]
          /\ right'[root'] = root
          /\ right'[root] = right[root] /\ left'[root'] = left[root']
          /\ \A m \in live(tree) \ {root, root'} :
               left'[m] = left[m] /\ right'[m] = right[m]
    /\ \A m \in live(tree') : key'[m] = key[m]
    /\ Sub(tree', root') = live(tree')
    /\ InOrder(tree', root') =
         SubSeq(InOrder(tree, root),
                1 + Cardinality(live(tree)) - Cardinality(live(tree')),
                Cardinality(live(tree)))
    /\ 2 * Cardinality(live(tree')) - RightSpineLength(tree', root')
         < 2 * Cardinality(live(tree)) - RightSpineLength(tree, root)

Teardown ==
  /\ [][TeardownStep]_vars
  /\ [](phase = "destroyed" => root = NULL /\ live(tree) = {} /\ ~fault)
  /\ <>(phase = "destroyed")

\* the destructor finished on a tree of five nodes whose last freed node was
\* the one with the largest key
TeardownWitness ==
  /\ phase = "destroyed" /\ size = 5
  /\ op = [name |-> "~ScapegoatTree", arg |-> 5]
  /\ root = NULL /\ live(tree) = {}

\* the nodes reachable from the nodes of seen through left and right links
RECURSIVE Closure(_, _)
Closure(t, seen) ==
  LET next == (seen \cup {t.left[n] : n \in seen \cap live(t)}
                    \cup {t.right[n] : n \in seen \cap live(t)}) \ {NULL}
  IN  IF next = seen THEN seen ELSE Closure(t, next)

Reachable(t) == Closure(t, {t.root} \ {NULL})

\* C20: after every completed insert or remove the nodes reachable from root
\* form a strict binary tree (every node is held by exactly one slot: the
\* root or one child link, so no cycle and no sharing), every reachable node
\* is allocated and is not rebuild's dummy, and every allocated node is
\* reachable from root.
WellFormed ==
  AfterCall =>
    /\ ~fault
    /\ Dummy \notin live(tree) /\ Dummy \notin Reachable(tree)
    /\ Reachable(tree) \subseteq live(tree)
    /\ live(tree) \subseteq Reachable(tree)
    /\ \A n \in live(tree) :
         /\ Cardinality(Slots(tree, n)) = 1
         /\ left[n] \in live(tree) \cup {NULL}
         /\ right[n] \in live(tree) \cup {NULL}
    /\ Cardinality(live(tree)) = size
    /\ DOMAIN left = live(tree) /\ DOMAIN right = live(tree)

\* the last key was removed after three or more inserts: the remove rebuilt
\* the empty tree through the dummy node and nothing is left allocated
WellFormedWitness ==
  /\ op.name = "remove" /\ ret /\ rb.happened
  /\ nIns >= 3 /\ size = 0
  /\ root = NULL /\ live(tree) = {}

====
